---- MODULE Spec2Model ----
(***************************************************************************)
(* A model of zedToKittiDataset.py: zed2_to_kitti converts a stereo        *)
(* recording into a KITTI-like dataset directory (image_0/, image_1/,      *)
(* times.txt, calib.txt).  One behaviour is a series of invocations of     *)
(* zed2_to_kitti on the same output directory, whose content persists      *)
(* from one invocation to the next.                                        *)
(*                                                                         *)
(* Text is a sequence of one-character strings, so that the formatting     *)
(* done by the f-strings is computed and not assumed.  A Python float      *)
(* is a sign, a magnitude and a number of decimal places (sign-magnitude,  *)
(* as IEEE 754: a negated zero keeps its sign).                            *)
(*                                                                         *)
(* Environment: a write inside the export loop (cv2.imwrite, the           *)
(* times_file.write) either takes effect or raises; nothing in             *)
(* zed2_to_kitti catches, so a raise ends the process.  The calls outside  *)
(* the loop are taken to succeed, except zed.open whose status the code    *)
(* tests.                                                                  *)
(***************************************************************************)
EXTENDS Integers, Sequences, FiniteSets, TLC

\* ------------------------------------------------------------------ bounds
\* Largest number of frames a recording holds.
MaxFrames == 2
\* Number of invocations of zed2_to_kitti on the output directory.
MaxRuns == 2

\* ------------------------------------------------------- program constants
\* f"{frame_count:06d}.png"
IndexWidth == 6
\* the :.9f of the timestamp and calibration f-strings
Precision == 9

\* -------------------------------------------------------------------- text
DigitChars == <<"0", "1", "2", "3", "4", "5", "6", "7", "8", "9">>

Str(s) ==
    \* a short literal as a sequence of characters
    CASE s = "P0:" -> <<"P", "0", ":">>
      [] s = "P1:" -> <<"P", "1", ":">>
      [] s = "0.0" -> <<"0", ".", "0">>
      [] s = "1.0" -> <<"1", ".", "0">>
      [] s = ".png" -> <<".", "p", "n", "g">>

RECURSIVE Pow10(_)
Pow10(n) == IF n = 0 THEN 1 ELSE 10 * Pow10(n - 1)

RECURSIVE NatToChars(_)
\* str(n) for n >= 0
NatToChars(n) ==
    IF n < 10 THEN <<DigitChars[n + 1]>>
    ELSE NatToChars(n \div 10) \o <<DigitChars[(n % 10) + 1]>>

RECURSIVE Zeros(_)
Zeros(k) == IF k <= 0 THEN <<>> ELSE <<"0">> \o Zeros(k - 1)

\* format(n, "0{w}d") for n >= 0: zero-padded to at least w digits
PadInt(n, w) == Zeros(w - Len(NatToChars(n))) \o NatToChars(n)

\* a float: (-1)^neg * mag * 10^-dp
Num(neg, mag, dp) == [neg |-> neg, mag |-> mag, dp |-> dp]
Neg(x) == [x EXCEPT !.neg = ~x.neg]
Mul(x, y) == Num(x.neg # y.neg, x.mag * y.mag, x.dp + y.dp)

\* format(x, ".{prec}f"), for a value of at most prec decimal places
FormatFixed(x, prec) ==
    (IF x.neg THEN <<"-">> ELSE <<>>)
        \o NatToChars(x.mag \div Pow10(x.dp))
        \o <<".">>
        \o PadInt((x.mag % Pow10(x.dp)) * Pow10(prec - x.dp), prec)

RECURSIVE Join(_, _)
\* sep.join(parts)
Join(parts, sep) ==
    IF Len(parts) = 0 THEN <<>>
    ELSE IF Len(parts) = 1 THEN parts[1]
    ELSE parts[1] \o sep \o Join(Tail(parts), sep)

\* s.split(sep) for a one-character separator: the pieces between the
\* occurrences of sep, in order
Split(s, sep) ==
    LET at == {i \in 1..Len(s) : s[i] = sep}
        \* the position of the k-th separator; 0 and Len(s) + 1 bracket them
        cut(k) == IF k = 0 THEN 0
                  ELSE IF k > Cardinality(at) THEN Len(s) + 1
                  ELSE CHOOSE i \in at : Cardinality({j \in at : j < i}) = k - 1
    IN  [k \in 1..(Cardinality(at) + 1) |-> SubSeq(s, cut(k - 1) + 1, cut(k) - 1)]

\* the lines of a text file, each ended by a newline (a last piece that no
\* newline ends is kept as a line of its own)
Lines(s) ==
    LET parts == Split(s, "\n")
    IN  IF parts[Len(parts)] = <<>> THEN SubSeq(parts, 1, Len(parts) - 1) ELSE parts

\* -------------------------------------------------------------- recordings
\* Nanoseconds between two frames of a recording.
FramePeriod == 33333333

\* the timestamps of a recording of k frames whose first frame is taken at t0
Timeline(t0, k) == [i \in 1..k |-> t0 + (i - 1) * FramePeriod]

Cam(fx, fy, cx, cy) == [fx |-> fx, fy |-> fy, cx |-> cx, cy |-> cy]
NoCam == Cam(Num(FALSE, 0, 0), Num(FALSE, 0, 0), Num(FALSE, 0, 0), Num(FALSE, 0, 0))

\* calibration_parameters of a camera: left_cam, right_cam and the x
\* component of stereo_transform's translation
CameraA ==
    [left_cam  |-> Cam(Num(FALSE, 7000, 1), Num(FALSE, 7005, 1),
                       Num(FALSE, 64025, 2), Num(FALSE, 3600, 1)),
     right_cam |-> Cam(Num(FALSE, 7015, 1), Num(FALSE, 6990, 1),
                       Num(FALSE, 6410, 1), Num(FALSE, 3595, 1)),
     tx0       |-> Num(FALSE, 12, 2)]
CameraB ==
    [left_cam  |-> Cam(Num(FALSE, 3500, 1), Num(FALSE, 35125, 2),
                       Num(FALSE, 320, 0), Num(FALSE, 1805, 1)),
     right_cam |-> Cam(Num(FALSE, 3520, 1), Num(FALSE, 3510, 1),
                       Num(FALSE, 3215, 1), Num(FALSE, 180, 0)),
     tx0       |-> Num(TRUE, 63, 3)]

\* what grab() returns once the frames are used up: the end of the file, or
\* an error of the reader
GrabEnds == {"END_OF_SVO_FILE_REACHED", "FAILURE"}

\* the recordings' origins: the time of the first frame, the camera, and how
\* the reading ends (a file read to its end; two files cut short by an error)
Sources ==
    { [t0 |-> 5,          cal |-> CameraA, last |-> "END_OF_SVO_FILE_REACHED"],
      [t0 |-> 5,          cal |-> CameraA, last |-> "FAILURE"],
      [t0 |-> 1000000007, cal |-> CameraB, last |-> "FAILURE"] }

\* a recording nothing can open
BadRecording ==
    [ok |-> FALSE, frames |-> <<>>, last |-> "FAILURE",
     cal |-> [left_cam |-> NoCam, right_cam |-> NoCam, tx0 |-> Num(FALSE, 0, 0)]]

Recordings ==
    { [ok |-> TRUE, frames |-> Timeline(src.t0, k), last |-> src.last, cal |-> src.cal] :
          src \in Sources, k \in 0..MaxFrames }
    \cup {BadRecording}

\* ------------------------------------------------------------------- state
VARIABLES
    run,              \* number of invocations started
    pc,               \* the statement zed2_to_kitti is at
    input,            \* the recording input_file names
    exit_code,        \* the process's exit code, -1 while it runs
    \* the output directory
    dirs,             \* its subdirectories
    image_0,          \* file name -> content, of image_0/
    image_1,          \* file name -> content, of image_1/
    times,            \* times.txt
    calib,            \* calib.txt
    \* the locals of zed2_to_kitti
    times_file,       \* "none", "open", "closed"
    zed,              \* the camera handle: "new", "open", "failed", "closed"
    left_cam_params,
    right_cam_params,
    baseline,
    frame_count,
    left_np,
    right_np,
    ts,
    \* the recording's read position and the status of the last grab
    position,
    status,
    \* history of the invocation
    opens,            \* calls of zed.open
    closes,           \* calls of zed.close
    grabs,            \* calls of zed.grab
    calib_reads,      \* the handle's state at each read of its calibration
    wrote,            \* writes done: [left, right, ts]
    created,          \* paths this invocation created
    prev              \* what the invocation before this one was and left

fs == <<dirs, image_0, image_1, times, calib>>
locals == <<times_file, zed, left_cam_params, right_cam_params, baseline,
            frame_count, left_np, right_np, ts>>
history == <<opens, closes, grabs, calib_reads, wrote, created, prev>>
vars == <<run, pc, input, exit_code, fs, locals, position, status, history>>

Absent == [exists |-> FALSE, data |-> <<>>]
File(data) == [exists |-> TRUE, data |-> data]
NoImage == [view |-> "NONE", ts |-> 0]

Terminal == {"done", "exited", "raised"}

Init ==
    /\ run = 0
    /\ pc = "idle"
    /\ input = BadRecording
    /\ exit_code = -1
    /\ dirs = {}
    /\ image_0 = <<>>
    /\ image_1 = <<>>
    /\ times = Absent
    /\ calib = Absent
    /\ times_file = "none"
    /\ zed = "new"
    /\ left_cam_params = NoCam
    /\ right_cam_params = NoCam
    /\ baseline = Num(FALSE, 0, 0)
    /\ frame_count = 0
    /\ left_np = NoImage
    /\ right_np = NoImage
    /\ ts = 0
    /\ position = 0
    /\ status = "NONE"
    /\ opens = 0
    /\ closes = 0
    /\ grabs = 0
    /\ calib_reads = <<>>
    /\ wrote = [left |-> 0, right |-> 0, ts |-> 0]
    /\ created = {}
    /\ prev = [done |-> FALSE, input |-> BadRecording, times |-> Absent, calib |-> Absent]

\* ------------------------------------------------------------ control flow
\* Succ with the calibration read moved to where calib.txt is built, after
\* zed.close().
SuccCalibrationAfterClose(p) ==
    CASE p = "makedirs_0"  -> "makedirs_1"
      [] p = "makedirs_1"  -> "open_times"
      [] p = "open_times"  -> "zed_open"
      [] p = "zed_open"    -> "grab"
      [] p = "grab"        -> "retrieve"
      [] p = "retrieve"    -> "write_left"
      [] p = "write_left"  -> "write_right"
      [] p = "write_right" -> "write_ts"
      [] p = "write_ts"    -> "incr"
      [] p = "incr"        -> "grab"
      [] p = "close_times" -> "zed_close"
      [] p = "zed_close"   -> "read_calib"
      [] p = "read_calib"  -> "write_calib"
      [] p = "write_calib" -> "done"

\* Succ with the timestamp written before the two images.
SuccTimestampFirst(p) ==
    CASE p = "makedirs_0"  -> "makedirs_1"
      [] p = "makedirs_1"  -> "open_times"
      [] p = "open_times"  -> "zed_open"
      [] p = "zed_open"    -> "read_calib"
      [] p = "read_calib"  -> "grab"
      [] p = "grab"        -> "retrieve"
      [] p = "retrieve"    -> "write_ts"
      [] p = "write_ts"    -> "write_left"
      [] p = "write_left"  -> "write_right"
      [] p = "write_right" -> "incr"
      [] p = "incr"        -> "grab"
      [] p = "close_times" -> "zed_close"
      [] p = "zed_close"   -> "write_calib"
      [] p = "write_calib" -> "done"

\* The statement that follows statement p when p falls through.
Succ(p) ==
    CASE p = "makedirs_0"  -> "makedirs_1"
      [] p = "makedirs_1"  -> "open_times"
      [] p = "open_times"  -> "zed_open"
      [] p = "zed_open"    -> "read_calib"
      [] p = "read_calib"  -> "grab"
      [] p = "grab"        -> "retrieve"
      [] p = "retrieve"    -> "write_left"
      [] p = "write_left"  -> "write_right"
      [] p = "write_right" -> "write_ts"
      [] p = "write_ts"    -> "incr"
      [] p = "incr"        -> "grab"
      [] p = "close_times" -> "zed_close"
      [] p = "zed_close"   -> "write_calib"
      [] p = "write_calib" -> "done"

\* where the break of the while loop lands
LoopExit == "close_times"

\* an exception nothing catches: the interpreter ends with exit code 1
Raise ==
    /\ pc' = "raised"
    /\ exit_code' = 1

\* ---------------------------------------------------------------- f-strings
\* Filename without the zero padding: f"{frame_count}.png"
FilenameUnpadded(n) == NatToChars(n) \o Str(".png")

\* f"{frame_count:06d}.png"
Filename(n) == PadInt(n, IndexWidth) \o Str(".png")

\* ts * 1e-9
Seconds(t) == Num(FALSE, t, 9)

\* f"{ts * 1e-9:.9f}\n"
TimeLine(t) == FormatFixed(Seconds(t), Precision) \o <<"\n">>

\* tx = -fx_left * baseline
Tx(left, base) == Mul(Neg(left.fx), base)

F9(x) == FormatFixed(x, Precision)

\* P0Line with the last 0.0 of the third row left out
P0LineElevenValues(left) ==
    Join(<<Str("P0:"), F9(left.fx), Str("0.0"), F9(left.cx), Str("0.0"),
           Str("0.0"), F9(left.fy), F9(left.cy), Str("0.0"),
           Str("0.0"), Str("0.0"), Str("1.0")>>, <<" ">>)

P0Line(left) ==
    Join(<<Str("P0:"), F9(left.fx), Str("0.0"), F9(left.cx), Str("0.0"),
           Str("0.0"), F9(left.fy), F9(left.cy), Str("0.0"),
           Str("0.0"), Str("0.0"), Str("1.0"), Str("0.0")>>, <<" ">>)

\* P1Line with tx computed from the right camera's fx
P1LineRightFx(left, right, base) ==
    Join(<<Str("P1:"), F9(right.fx), Str("0.0"), F9(right.cx), F9(Tx(right, base)),
           Str("0.0"), F9(right.fy), F9(right.cy), Str("0.0"),
           Str("0.0"), Str("0.0"), Str("1.0"), Str("0.0")>>, <<" ">>)

P1Line(left, right, base) ==
    Join(<<Str("P1:"), F9(right.fx), Str("0.0"), F9(right.cx), F9(Tx(left, base)),
           Str("0.0"), F9(right.fy), F9(right.cy), Str("0.0"),
           Str("0.0"), Str("0.0"), Str("1.0"), Str("0.0")>>, <<" ">>)

\* what the loop over calib_str writes
CalibText(left, right, base) ==
    P0Line(left) \o <<"\n">> \o P1Line(left, right, base) \o <<"\n">>

\* ------------------------------------------------------------------ actions
\* main(): one more run of the script, on the same output directory
Invoke(rec) ==
    /\ pc \in {"idle"} \cup Terminal
    /\ run < MaxRuns
    /\ run' = run + 1
    /\ input' = rec
    /\ pc' = "makedirs_0"
    /\ exit_code' = -1
    /\ prev' = [done |-> pc = "done", input |-> input, times |-> times, calib |-> calib]
    /\ times_file' = "none"
    /\ zed' = "new"
    /\ left_cam_params' = NoCam
    /\ right_cam_params' = NoCam
    /\ baseline' = Num(FALSE, 0, 0)
    /\ frame_count' = 0
    /\ left_np' = NoImage
    /\ right_np' = NoImage
    /\ ts' = 0
    /\ position' = 0
    /\ status' = "NONE"
    /\ opens' = 0
    /\ closes' = 0
    /\ grabs' = 0
    /\ calib_reads' = <<>>
    /\ wrote' = [left |-> 0, right |-> 0, ts |-> 0]
    /\ created' = {}
    /\ UNCHANGED fs

\* os.makedirs(image_0_dir, exist_ok=True)
MakeImage0Dir ==
    /\ pc = "makedirs_0"
    /\ dirs' = dirs \cup {"image_0"}
    /\ created' = created \cup ({"image_0"} \ dirs)
    /\ pc' = Succ(pc)
    /\ UNCHANGED <<run, input, exit_code, image_0, image_1, times, calib, locals,
                   position, status, opens, closes, grabs, calib_reads, wrote, prev>>

\* os.makedirs(image_1_dir, exist_ok=True)
MakeImage1Dir ==
    /\ pc = "makedirs_1"
    /\ dirs' = dirs \cup {"image_1"}
    /\ created' = created \cup ({"image_1"} \ dirs)
    /\ pc' = Succ(pc)
    /\ UNCHANGED <<run, input, exit_code, image_0, image_1, times, calib, locals,
                   position, status, opens, closes, grabs, calib_reads, wrote, prev>>

\* OpenTimesFile with mode 'a': what the file holds is kept
OpenTimesFileAppend ==
    /\ pc = "open_times"
    /\ times' = File(times.data)
    /\ times_file' = "open"
    /\ created' = created \cup (IF times.exists THEN {} ELSE {"times.txt"})
    /\ pc' = Succ(pc)
    /\ UNCHANGED <<run, input, exit_code, dirs, image_0, image_1, calib, zed,
                   left_cam_params, right_cam_params, baseline, frame_count,
                   left_np, right_np, ts, position, status, opens, closes, grabs,
                   calib_reads, wrote, prev>>

\* times_file = open(os.path.join(output_dir, "times.txt"), 'w')
OpenTimesFile ==
    /\ pc = "open_times"
    /\ times' = File(<<>>)
    /\ times_file' = "open"
    /\ created' = created \cup (IF times.exists THEN {} ELSE {"times.txt"})
    /\ pc' = Succ(pc)
    /\ UNCHANGED <<run, input, exit_code, dirs, image_0, image_1, calib, zed,
                   left_cam_params, right_cam_params, baseline, frame_count,
                   left_np, right_np, ts, position, status, opens, closes, grabs,
                   calib_reads, wrote, prev>>

\* status = zed.open(init_params); if status != SUCCESS: sys.exit(1)
ZedOpen ==
    /\ pc = "zed_open"
    /\ opens' = opens + 1
    /\ IF input.ok
       THEN /\ zed' = "open"
            /\ pc' = Succ(pc)
            /\ UNCHANGED exit_code
       ELSE /\ zed' = "failed"
            /\ pc' = "exited"
            /\ exit_code' = 1
    /\ UNCHANGED <<run, input, fs, times_file, left_cam_params, right_cam_params,
                   baseline, frame_count, left_np, right_np, ts, position, status,
                   closes, grabs, calib_reads, wrote, created, prev>>

\* zed.get_camera_information().camera_configuration.calibration_parameters:
\* left_cam, right_cam and stereo_transform.get_translation().get()[0]
ReadCalibration ==
    /\ pc = "read_calib"
    /\ calib_reads' = calib_reads \o <<zed, zed, zed, zed>>
    /\ IF zed = "open"
       THEN /\ left_cam_params' = input.cal.left_cam
            /\ right_cam_params' = input.cal.right_cam
            /\ baseline' = input.cal.tx0
       ELSE \* a handle that is not open has no calibration to give
            /\ left_cam_params' = NoCam
            /\ right_cam_params' = NoCam
            /\ baseline' = Num(FALSE, 0, 0)
    /\ pc' = Succ(pc)
    /\ UNCHANGED <<run, input, exit_code, fs, times_file, zed, frame_count,
                   left_np, right_np, ts, position, status, opens, closes, grabs,
                   wrote, created, prev>>

\* Grab that tells an error from the end of the file and raises on it
GrabRaisesOnFailure ==
    /\ pc = "grab"
    /\ grabs' = grabs + 1
    /\ IF zed = "open" /\ position < Len(input.frames)
       THEN /\ status' = "SUCCESS"
            /\ position' = position + 1
            /\ pc' = Succ(pc)
            /\ UNCHANGED exit_code
       ELSE /\ status' = (IF zed = "open" THEN input.last ELSE "CAMERA_NOT_INITIALIZED")
            /\ position' = position
            /\ IF status' = "END_OF_SVO_FILE_REACHED"
               THEN pc' = LoopExit /\ UNCHANGED exit_code
               ELSE Raise
    /\ UNCHANGED <<run, input, fs, locals, opens, closes, calib_reads,
                   wrote, created, prev>>

\* if zed.grab(runtime_params) == SUCCESS: ... else: break
Grab ==
    /\ pc = "grab"
    /\ grabs' = grabs + 1
    /\ IF zed = "open" /\ position < Len(input.frames)
       THEN /\ status' = "SUCCESS"
            /\ position' = position + 1
            /\ pc' = Succ(pc)
       ELSE /\ status' = (IF zed = "open" THEN input.last ELSE "CAMERA_NOT_INITIALIZED")
            /\ position' = position
            /\ pc' = LoopExit
    /\ UNCHANGED <<run, input, exit_code, fs, locals, opens, closes, calib_reads,
                   wrote, created, prev>>

\* retrieve_image(left/right), get_timestamp(IMAGE).get_nanoseconds(),
\* get_data()[:, :, :3]
Retrieve ==
    /\ pc = "retrieve"
    /\ left_np' = [view |-> "LEFT", ts |-> input.frames[position]]
    /\ right_np' = [view |-> "RIGHT", ts |-> input.frames[position]]
    /\ ts' = input.frames[position]
    /\ pc' = Succ(pc)
    /\ UNCHANGED <<run, input, exit_code, fs, times_file, zed, left_cam_params,
                   right_cam_params, baseline, frame_count, position, status,
                   history>>

\* cv2.imwrite(os.path.join(image_0_dir, filename_left), left_np)
WriteLeft ==
    /\ pc = "write_left"
    /\ \/ /\ image_0' = (Filename(frame_count) :> [pixels |-> left_np, run |-> run])
                            @@ image_0
          /\ wrote' = [wrote EXCEPT !.left = @ + 1]
          /\ pc' = Succ(pc)
          /\ UNCHANGED exit_code
       \/ /\ Raise
          /\ UNCHANGED <<image_0, wrote>>
    /\ UNCHANGED <<run, input, dirs, image_1, times, calib, locals, position,
                   status, opens, closes, grabs, calib_reads, created, prev>>

\* WriteRight that names the file by the index of the frame to come
WriteRightNextIndex ==
    /\ pc = "write_right"
    /\ \/ /\ image_1' = (Filename(frame_count + 1) :> [pixels |-> right_np, run |-> run])
                            @@ image_1
          /\ wrote' = [wrote EXCEPT !.right = @ + 1]
          /\ pc' = Succ(pc)
          /\ UNCHANGED exit_code
       \/ /\ Raise
          /\ UNCHANGED <<image_1, wrote>>
    /\ UNCHANGED <<run, input, dirs, image_0, times, calib, locals, position,
                   status, opens, closes, grabs, calib_reads, created, prev>>

\* cv2.imwrite(os.path.join(image_1_dir, filename_right), right_np)
WriteRight ==
    /\ pc = "write_right"
    /\ \/ /\ image_1' = (Filename(frame_count) :> [pixels |-> right_np, run |-> run])
                            @@ image_1
          /\ wrote' = [wrote EXCEPT !.right = @ + 1]
          /\ pc' = Succ(pc)
          /\ UNCHANGED exit_code
       \/ /\ Raise
          /\ UNCHANGED <<image_1, wrote>>
    /\ UNCHANGED <<run, input, dirs, image_0, times, calib, locals, position,
                   status, opens, closes, grabs, calib_reads, created, prev>>

\* times_file.write(f"{ts * 1e-9:.9f}\n")
WriteTimestamp ==
    /\ pc = "write_ts"
    /\ \/ /\ times_file = "open"
          /\ times' = File(times.data \o TimeLine(ts))
          /\ wrote' = [wrote EXCEPT !.ts = @ + 1]
          /\ pc' = Succ(pc)
          /\ UNCHANGED exit_code
       \/ /\ Raise
          /\ UNCHANGED <<times, wrote>>
    /\ UNCHANGED <<run, input, dirs, image_0, image_1, calib, locals, position,
                   status, opens, closes, grabs, calib_reads, created, prev>>

\* frame_count += 1
Increment ==
    /\ pc = "incr"
    /\ frame_count' = frame_count + 1
    /\ pc' = Succ(pc)
    /\ UNCHANGED <<run, input, exit_code, fs, times_file, zed, left_cam_params,
                   right_cam_params, baseline, left_np, right_np, ts, position,
                   status, history>>

\* times_file.close()
CloseTimes ==
    /\ pc = "close_times"
    /\ times_file' = "closed"
    /\ pc' = Succ(pc)
    /\ UNCHANGED <<run, input, exit_code, fs, zed, left_cam_params,
                   right_cam_params, baseline, frame_count, left_np, right_np, ts,
                   position, status, history>>

\* zed.close()
ZedClose ==
    /\ pc = "zed_close"
    /\ zed' = "closed"
    /\ closes' = closes + 1
    /\ pc' = Succ(pc)
    /\ UNCHANGED <<run, input, exit_code, fs, times_file, left_cam_params,
                   right_cam_params, baseline, frame_count, left_np, right_np, ts,
                   position, status, opens, grabs, calib_reads, wrote, created, prev>>

\* tx, P0, P1; with open(calib.txt, 'w') as f: write each line; return
WriteCalib ==
    /\ pc = "write_calib"
    /\ calib' = File(CalibText(left_cam_params, right_cam_params, baseline))
    /\ created' = created \cup (IF calib.exists THEN {} ELSE {"calib.txt"})
    /\ pc' = Succ(pc)
    /\ exit_code' = 0
    /\ UNCHANGED <<run, input, dirs, image_0, image_1, times, locals, position,
                   status, opens, closes, grabs, calib_reads, wrote, prev>>

Next ==
    \/ \E rec \in Recordings : Invoke(rec)
    \/ MakeImage0Dir
    \/ MakeImage1Dir
    \/ OpenTimesFile
    \/ ZedOpen
    \/ ReadCalibration
    \/ Grab
    \/ Retrieve
    \/ WriteLeft
    \/ WriteRight
    \/ WriteTimestamp
    \/ Increment
    \/ CloseTimes
    \/ ZedClose
    \/ WriteCalib

Spec == Init /\ [][Next]_vars

\* ================================================================== claims
K == Len(input.frames)
TimesLines == Lines(times.data)
CalibLines == Lines(calib.data)
Tokens(line) == Split(line, " ")
Digits == {DigitChars[i] : i \in 1..10}

\* the 6-digit zero-padded names of the indices 0 .. k-1
IndexNames(k) == {PadInt(i, 6) \o <<".", "p", "n", "g">> : i \in 0..(k - 1)}

\* the text of a value has exactly n digits after its decimal point
HasDecimals(tok, n) ==
    LET parts == Split(tok, ".")
    IN  /\ Len(parts) = 2
        /\ Len(parts[2]) = n
        /\ \A i \in 1..n : parts[2][i] \in Digits

\* ---- C1
\* C1 as stated: when a run whose open succeeded finishes, times.txt has
\* exactly K lines and image_0/ and image_1/ hold exactly the K files named
\* 000000 .. K-1 and no other file.
C1_ExactlyKFiles ==
    pc = "done" =>
        /\ Len(TimesLines) = K
        /\ DOMAIN image_0 = IndexNames(K)
        /\ DOMAIN image_1 = IndexNames(K)

\* C1 amended: when a run whose open succeeded finishes, times.txt has
\* exactly K lines, this run has written to image_0/ and to image_1/ the K
\* files named 000000 .. K-1, each once, and every other file of the two
\* directories was there before the run began (the run deletes nothing).
C1_KFilesWrittenOthersKept ==
    pc = "done" =>
        /\ Len(TimesLines) = K
        /\ wrote.left = K /\ wrote.right = K
        /\ \A d \in {image_0, image_1} :
              /\ IndexNames(K) \subseteq DOMAIN d
              /\ \A n \in DOMAIN d : (d[n].run = run) <=> (n \in IndexNames(K))
              /\ \A n \in DOMAIN d : d[n].run <= run

C1_Witness ==
    /\ pc = "done" /\ run = 2 /\ K = 1
    /\ Cardinality(DOMAIN image_0) = 2
    /\ Cardinality(DOMAIN image_1) = 2

\* ---- C2
\* C2 as stated: when zed.open fails, the run ends with exit code 1 having
\* created no times.txt, no calib.txt and no image_0/ or image_1/ directory.
C2_NothingCreatedOnOpenFailure ==
    pc = "exited" =>
        /\ exit_code = 1
        /\ created \cap {"times.txt", "calib.txt", "image_0", "image_1"} = {}

\* ---- C3
\* C3: at every point of a run, for every N below frame_count, line N of
\* times.txt is the timestamp of the frame of the Nth successful grab, and
\* image_0/{N:06d} and image_1/{N:06d} are the left and right view of that
\* same frame, written by this run.
C3_LineNMatchesImagesN ==
    pc # "idle" =>
        \A n \in 0..(frame_count - 1) :
            LET t == input.frames[n + 1]
                name == PadInt(n, 6) \o <<".", "p", "n", "g">>
            IN  /\ n + 1 <= Len(TimesLines)
                /\ TimesLines[n + 1] = FormatFixed(Num(FALSE, t, 9), 9)
                /\ name \in DOMAIN image_0 /\ name \in DOMAIN image_1
                /\ image_0[name] = [pixels |-> [view |-> "LEFT", ts |-> t], run |-> run]
                /\ image_1[name] = [pixels |-> [view |-> "RIGHT", ts |-> t], run |-> run]

C3_Witness ==
    /\ pc = "done" /\ run = 2 /\ frame_count = 2
    /\ prev.done /\ prev.input # input /\ Len(prev.input.frames) = 2

\* ---- C4
PostLoop == {"close_times", "zed_close", "write_calib"}

\* a step that grabs and writes nothing, raises nothing and stays on the way
\* from the loop's break to the return
NothingMoreExported ==
    /\ grabs' = grabs
    /\ wrote' = wrote
    /\ image_0' = image_0 /\ image_1' = image_1 /\ times' = times
    /\ pc' \in PostLoop \cup {"done"}
    /\ exit_code' # 1

\* C4: a grab that does not return SUCCESS, whatever it returns, leaves the
\* loop; from then on the run grabs no more, writes no image and no
\* timestamp, changes no exported frame and raises nothing, and it goes on to
\* close the handle, write calib.txt and end with exit code 0.
C4_LoopEndsOnFirstFailedGrab ==
    /\ [][(grabs' = grabs + 1 /\ status' # "SUCCESS") => pc' = "close_times"]_vars
    /\ [][(pc \in PostLoop) => NothingMoreExported]_vars
    /\ [](pc = "done" =>
            /\ status \in GrabEnds
            /\ grabs = K + 1
            /\ exit_code = 0
            /\ zed = "closed"
            /\ calib = File(CalibText(input.cal.left_cam, input.cal.right_cam,
                                      input.cal.tx0)))

C4_Witness ==
    pc = "done" /\ status = "FAILURE" /\ frame_count = 1 /\ Len(TimesLines) = 1

\* ---- C5
\* a step taken on a handle that is open, was opened once, was never closed
\* and has not been grabbed from
ReadOfOpenHandle ==
    /\ zed = "open" /\ zed' = "open"
    /\ opens = 1 /\ closes = 0 /\ grabs = 0

\* C5: every read of the handle's calibration happens while the handle is
\* open, after the one successful open, before any close and before the
\* first grab; a handle that failed to open or is closed is never read.
C5_CalibrationReadWhileOpen ==
    /\ [][(calib_reads' # calib_reads /\ calib_reads' # <<>>) => ReadOfOpenHandle]_vars
    /\ [](\A i \in DOMAIN calib_reads : calib_reads[i] = "open")
    /\ [](pc \in {"grab", "done"} => Len(calib_reads) = 4)

C5_Witness ==
    /\ pc = "done" /\ zed = "closed" /\ Len(calib_reads) = 4
    /\ left_cam_params = input.cal.left_cam

Computed(l) == IF l = 1 THEN {1, 3, 6, 7} ELSE {1, 3, 4, 6, 7}

C7_TxFromLeftFxAndBaseline ==
    pc = "done" =>
        LET fx == input.cal.left_cam.fx
            b  == input.cal.tx0
            p0 == Tokens(CalibLines[1])
            p1 == Tokens(CalibLines[2])
        IN  /\ p1[5] = FormatFixed(Num(~(fx.neg # b.neg), fx.mag * b.mag,
                                       fx.dp + b.dp), 9)
            /\ (~fx.neg /\ ~b.neg /\ b.mag > 0) => p1[5][1] = "-"
            /\ p0[5] = <<"0", ".", "0">>
            /\ (fx = Num(FALSE, 7000, 1) /\ b = Num(FALSE, 12, 2)) =>
                   p1[5] = <<"-", "8", "4", ".", "0", "0", "0", "0", "0", "0",
                             "0", "0", "0">>

C7_Witness ==
    /\ pc = "done"
    /\ input.cal.left_cam.fx = Num(FALSE, 7000, 1)
    /\ input.cal.right_cam.fx # input.cal.left_cam.fx
    /\ input.cal.tx0 = Num(FALSE, 12, 2)
    /\ Tokens(CalibLines[2])[5] = <<"-", "8", "4", ".", "0", "0", "0", "0", "0",
                                    "0", "0", "0", "0">>

\* ---- C8
\* C8: when a run finishes on the recording that the run before it finished
\* on, in the same output directory, times.txt and calib.txt hold exactly
\* what they held when the first of the two runs finished.
C8_SecondRunSameFiles ==
    (pc = "done" /\ prev.done /\ prev.input = input) =>
        /\ times = prev.times
        /\ calib = prev.calib

C8_Witness ==
    /\ pc = "done" /\ prev.done /\ prev.input = input
    /\ K = 2 /\ Len(TimesLines) = 2 /\ times = prev.times

\* ---- C9
\* C9 as stated: zed.open is called once; on every way out of a run whose
\* open succeeded the handle has been closed exactly once, and when the open
\* failed close was never called.
C9_ClosedOnceOnEveryExit ==
    pc \in Terminal =>
        /\ opens = 1
        /\ input.ok => closes = 1
        /\ ~input.ok => closes = 0

\* ---- C10
\* C10: at every point of a run, also after a write that raised, with L the
\* number of lines written to times.txt: image_1/ has received L or L+1
\* images, image_0/ at least as many as image_1/ and at most L+1, times.txt
\* has L lines, and frame_count is L, except between the timestamp write and
\* the increment, where it is L-1.
C10_WritesInStep ==
    LET L == wrote.ts
    IN  /\ wrote.right \in {L, L + 1}
        /\ wrote.right <= wrote.left
        /\ wrote.left <= L + 1
        /\ times_file # "none" => Len(TimesLines) = L
        /\ IF pc = "incr" THEN frame_count + 1 = L ELSE frame_count = L

C10_Witness ==
    /\ pc = "raised"
    /\ wrote = [left |-> 2, right |-> 2, ts |-> 1]
    /\ frame_count = 1

====
